---- MODULE Spec2Model ----
(***************************************************************************)
(* Model of oauth_dropins/reddit.py: the reddit OAuth drop-in.             *)
(*                                                                         *)
(* StartHandler.redirect_url stores an OAuthRequestToken under a state     *)
(* token and returns the authorization URL; CallbackHandler.get decodes    *)
(* the state blob, checks the stored token, exchanges the code with the    *)
(* provider, stores a RedditAuth entity and calls finish.                  *)
(*                                                                         *)
(* Python strings whose characters matter (the error parameter, the state  *)
(* token) are sequences of one-character strings; the others are TLA+      *)
(* strings.  Optional objects are sets of at most one element.             *)
(***************************************************************************)
EXTENDS Integers, Sequences, FiniteSets, TLC

VARIABLES
  appKey,          \* REDDIT_APP_KEY
  appSecret,       \* REDDIT_APP_SECRET
  requestTokens,   \* datastore: the OAuthRequestToken entities
  auths,           \* datastore: the RedditAuth entities
  req,             \* per handler slot: the request being served and its locals
  invocations,     \* number of requests received so far
  proven           \* history: state tokens that already authenticated a successful callback

vars == <<appKey, appSecret, requestTokens, auths, req, invocations, proven>>

----------------------------------------------------------------------------
(* Bounds *)

\* Total number of requests (Start and Callback together) in one behaviour.
MaxInvocations == 3

\* The request handlers that can be in flight at the same time.
Handlers == {"h1", "h2"}

----------------------------------------------------------------------------
(* Python values *)

\* None, for a value that is otherwise a character sequence.
None == <<"<None>">>

\* None, for a value that is otherwise a TLA+ string.
NoneStr == "<None>"

\* `not v` for a character sequence or None.
Falsy(v) == v = None \/ v = <<>>

\* `not v` for a TLA+ string or None.
FalsyStr(v) == v = NoneStr \/ v = ""

\* The literal of line 97: ('access_denied') is a parenthesised str, not a tuple.
ACCESS_DENIED == <<"a", "c", "c", "e", "s", "s", "_", "d", "e", "n", "i", "e", "d">>

\* `s in t` for two str: s occurs in t as a contiguous substring.
IsSubstring(s, t) ==
  \E i \in 0..(Len(t) - Len(s)) : SubSeq(t, i + 1, i + Len(s)) = s

\* Line 97 with the wrong literal: a test against 'user_denied'.
IsDeclined_WrongLiteral(error) ==
  IsSubstring(error, <<"u", "s", "e", "r", "_", "d", "e", "n", "i", "e", "d">>)

\* The test of line 97: `error in ('access_denied')`.
IsDeclined(error) == IsSubstring(error, ACCESS_DENIED)

Digits == <<"0", "1", "2", "3", "4", "5", "6", "7", "8", "9">>

\* str(n) for a natural number: its decimal digits.
RECURSIVE str(_)
str(n) ==
  IF n < 10 THEN <<Digits[n + 1]>>
  ELSE str(n \div 10) \o <<Digits[(n % 10) + 1]>>

\* randint(100000, 999999) of line 63.
RandintLo == 100000
RandintHi == 999999

\* The values of randint the model draws: both ends of the range.
RandintSample == {RandintLo, RandintHi}

\* a Python value passed as finish's state argument: a dict, a str or None
EmptyDict == [state |-> None, to_path |-> None]
PyDict(d) == [type |-> "dict", str |-> None, dict |-> d]
PyStr(s) ==
  IF s = None THEN [type |-> "NoneType", str |-> None, dict |-> EmptyDict]
  ELSE [type |-> "str", str |-> s, dict |-> EmptyDict]

----------------------------------------------------------------------------
(* Request inputs *)

\* self.request.host_url and the handler's to_path
HOST_URL == <<"h", "t", "t", "p", "s", ":", "/", "/", "a", "p", "p">>
TO_PATH == <<"/", "c", "b">>

\* self.request.host_url when the app is reached under another host name
OTHER_HOST_URL == <<"h", "t", "t", "p", "s", ":", "/", "/", "w", "w", "w">>

\* The hosts a request can arrive on.
Hosts == {HOST_URL, OTHER_HOST_URL}

\* The state arguments redirect_url is called with: None, '' or a caller's state.
StateArgs == {None, <<>>, <<"s">>}

\* The state tokens a Start can issue.
IssuedTokens == {<<"s">>} \cup {str(n) : n \in RandintSample}

\* the `error` query parameter: absent, the decline, a substring of it, another error
Errors ==
  { <<>>,
    ACCESS_DENIED,
    <<"d", "e", "n", "i", "e", "d">>,
    <<"i", "n", "v", "a", "l", "i", "d">> }

\* the `code` query parameter: absent or an authorization code
Codes == {"", "abc123"}

\* util.encode_oauth_state: the dict as one opaque, reversible string.
encode_oauth_state(obj) == [form |-> "quoted_json", obj |-> obj]

\* The `state` query parameter when it is absent (request.get gives '').
EmptyParam == [form |-> "empty", obj |-> EmptyDict]

\* A `state` query parameter that is no encoding of any dict.
Malformed == [form |-> "malformed", obj |-> EmptyDict]

\* util.decode_oauth_state: the dict of an encoded blob, the empty dict of an
\* empty parameter, a failure for anything else.
decode_oauth_state(blob) ==
  CASE blob.form = "quoted_json" -> [ok |-> TRUE, obj |-> blob.obj]
    [] blob.form = "empty" -> [ok |-> TRUE, obj |-> EmptyDict]
    [] OTHER -> [ok |-> FALSE, obj |-> EmptyDict]

\* The `state` query parameters a Callback can arrive with: every blob a Start
\* can emit, blobs lacking the token or the path, no blob, a malformed one.
Blobs ==
  {encode_oauth_state([state |-> t, to_path |-> TO_PATH]) : t \in IssuedTokens}
    \cup { encode_oauth_state([state |-> <<>>, to_path |-> TO_PATH]),
           encode_oauth_state([state |-> <<"s">>, to_path |-> None]),
           EmptyParam,
           Malformed }

----------------------------------------------------------------------------
(* The provider (praw) *)

\* What reddit.auth.authorize(code) can return: a refresh token, or None.
RefreshTokens == {"rt1", "rt2", NoneStr}

\* A praw Redditor: the attributes of lines 121-127 and one that is not listed.
Redditor(name, karma) ==
  [ name |-> name, comment_karma |-> karma, created_utc |-> 0, id |-> name,
    link_karma |-> 0, icon_img |-> "", is_employee |-> FALSE ]

\* What reddit.user.me() can return.
Users == {Redditor("alice", 1), Redditor("alice", 2), Redditor("bob", 1)}

\* lines 121-127
attribute_list == {"name", "comment_karma", "created_utc", "id", "link_karma", "icon_img"}

\* json_dumps: the dict as a string
json_dumps(d) == [json |-> d]

\* line 128 and the json_dumps of line 133
user_json(user) == json_dumps([a \in attribute_list |-> user[a]])

\* line 129: str(user) is the Redditor's name
user_id(user) == user.name

\* reddit.auth.url(['identity'], st, 'permanent') of a praw.Reddit built at 66-69
AuthUrl(client_id, client_secret, redirect_uri, st) ==
  [ client_id |-> client_id, client_secret |-> client_secret,
    redirect_uri |-> redirect_uri, scopes |-> <<"identity">>,
    state |-> st, duration |-> "permanent" ]

\* praw.Reddit(client_id=..., client_secret=..., redirect_uri=...): lines 66-69, 111-114
Reddit(client_id, client_secret, redirect_uri) ==
  [client_id |-> client_id, client_secret |-> client_secret, redirect_uri |-> redirect_uri]

----------------------------------------------------------------------------
(* The datastore *)

\* lines 72-74: the entity's id, token_secret and state are all the state token
OAuthRequestToken(state) == [id |-> state, token_secret |-> state, state |-> state]

\* lines 131-133
RedditAuth(id, refresh_token, json) ==
  [id |-> id, refresh_token |-> refresh_token, user_json |-> json]

\* A put that adds the entity without replacing the one under its key.
Put_Insert(store, entity) == store \cup {entity}

\* Model.put(): the entity replaces the one stored under the same key.
Put(store, entity) == {e \in store : e.id # entity.id} \cup {entity}

\* Model.get_by_id(): the entity under the key, or None (the empty set).
get_by_id(store, id) == {e \in store : e.id = id}

----------------------------------------------------------------------------
(* Requests *)

\* A handler slot with no request.
IdleReq ==
  [ kind |-> "none", pc |-> "idle",
    state_arg |-> None, host_url |-> None,
    error |-> <<>>, blob |-> EmptyParam, code |-> "",
    st |-> EmptyDict, state |-> None, to_path |-> None,
    request_token |-> {}, redirect_uri |-> None, reddit |-> {},
    refresh_token |-> NoneStr, user |-> {},
    outcome |-> "", finish |-> <<>>, url |-> {},
    exchanged |-> FALSE, writes |-> 0 ]

Init ==
  /\ appKey \in {NoneStr, "", "key"}
  /\ appSecret \in {NoneStr, "", "secret"}
  /\ requestTokens = {}
  /\ auths = {}
  /\ req = [h \in Handlers |-> IdleReq]
  /\ invocations = 0
  /\ proven = {}

\* A request ends: by returning, or by the exception `outcome` names.
Done(r, fields, outcome) ==
  req' = [req EXCEPT ![r] = [fields EXCEPT !.pc = "done", !.outcome = outcome]]

----------------------------------------------------------------------------
(* StartHandler.redirect_url *)

\* Lines 62-63 without the test: a random token replaces the caller's state too.
StateToken_AlwaysRandom(stateArg) == {str(n) : n \in RandintSample}

\* lines 62-63: the state argument, or str(randint(100000, 999999)) without one
StateToken(stateArg) ==
  IF Falsy(stateArg) THEN {str(n) : n \in RandintSample} ELSE {stateArg}

\* Line 64 checking the key alone.
AppConfigured_KeyOnly == ~FalsyStr(appKey)

\* line 64: the condition of the assert
AppConfigured == ~FalsyStr(appKey) /\ ~FalsyStr(appSecret)

\* line 68: redirect_uri=self.request.host_url + self.to_path
StartRedirectUri(host_url, to_path) == host_url \o to_path

\* lines 60-69: choose the state token, check the configuration, build the client.
StartBegin(r, stateArg) ==
  /\ req[r].pc = "idle"
  /\ invocations < MaxInvocations
  /\ invocations' = invocations + 1
  /\ \E state \in StateToken(stateArg) :
       LET started == [IdleReq EXCEPT !.kind = "start", !.state_arg = stateArg,
                                      !.state = state, !.to_path = TO_PATH]
       IN IF ~AppConfigured
          THEN Done(r, started, "AssertionError")
          ELSE \E host_url \in Hosts :
                 LET redirect_uri == StartRedirectUri(host_url, TO_PATH)
                 IN req' = [req EXCEPT ![r] =
                      [started EXCEPT
                         !.pc = "put",
                         !.host_url = host_url,
                         !.redirect_uri = redirect_uri,
                         !.reddit = {Reddit(appKey, appSecret, redirect_uri)}]]
  /\ UNCHANGED <<appKey, appSecret, requestTokens, auths, proven>>

\* Lines 72-74 with the put left out: the entity is built and never stored.
StartPut_Skipped(r) ==
  /\ req[r].kind = "start"
  /\ req[r].pc = "put"
  /\ req' = [req EXCEPT ![r].pc = "return"]
  /\ UNCHANGED <<appKey, appSecret, requestTokens, auths, invocations, proven>>

\* Lines 72-74 as an insert that refuses an id already stored: the second Start
\* with the token fails.
StartPut_FailsOnExisting(r) ==
  /\ req[r].kind = "start"
  /\ req[r].pc = "put"
  /\ IF get_by_id(requestTokens, req[r].state) # {}
     THEN /\ Done(r, req[r], "BadRequestError")
          /\ UNCHANGED <<requestTokens, proven>>
     ELSE /\ requestTokens' = Put(requestTokens, OAuthRequestToken(req[r].state))
          /\ proven' = proven \ {req[r].state}
          /\ req' = [req EXCEPT ![r].pc = "return"]
  /\ UNCHANGED <<appKey, appSecret, auths, invocations>>

\* lines 72-74: store the OAuthRequestToken under the state token.
StartPut(r) ==
  /\ req[r].kind = "start"
  /\ req[r].pc = "put"
  /\ requestTokens' = Put(requestTokens, OAuthRequestToken(req[r].state))
  /\ proven' = proven \ {req[r].state}
  /\ req' = [req EXCEPT ![r].pc = "return"]
  /\ UNCHANGED <<appKey, appSecret, auths, invocations>>

\* lines 75-76: encode the state blob and return the authorization URL.
StartReturn(r) ==
  /\ req[r].kind = "start"
  /\ req[r].pc = "return"
  /\ \E reddit \in req[r].reddit :
       LET st == encode_oauth_state([state |-> req[r].state,
                                     to_path |-> req[r].to_path])
           url == AuthUrl(reddit.client_id, reddit.client_secret,
                          reddit.redirect_uri, st)
       IN Done(r, [req[r] EXCEPT !.blob = st, !.url = {url}], "returned")
  /\ UNCHANGED <<appKey, appSecret, requestTokens, auths, invocations, proven>>

----------------------------------------------------------------------------
(* CallbackHandler.get *)

\* Line 92 wrapped in a try/except that falls back to the empty dict.
DecodeRaises_Swallowed(blob) == FALSE

\* line 92: the call is not guarded, so a failure of the decode ends get.
DecodeRaises(blob) == ~decode_oauth_state(blob).ok

\* line 96
IsErrorOrIncomplete(error, state, code) == error # <<>> \/ Falsy(state) \/ code = ""

\* line 99: finish(None, state=state), with the state token
DeclineFinish(st, state) == [auth |-> {}, state |-> PyStr(state)]

\* Line 135 passing the state token, as line 99 does.
SuccessFinish_TokenOnly(auth, st) == [auth |-> {auth}, state |-> PyStr(st.state)]

\* line 135: finish(auth, state=st), with the decoded dict
SuccessFinish(auth, st) == [auth |-> {auth}, state |-> PyDict(st)]

\* line 109: the exception raised when no OAuthRequestToken is found. The message
\* reads request_token_key, a name defined nowhere, so building it raises NameError
\* before HTTPBadRequest is constructed.
InvalidTokenError == "NameError"

\* Line 113 without the path: the host URL alone.
CallbackRedirectUri_HostOnly(host_url, to_path) == host_url

\* line 113: redirect_uri=self.request.host_url + to_path
CallbackRedirectUri(host_url, to_path) == host_url \o to_path

\* lines 91-114: read the parameters, decode the state, take the error branch or look
\* the state token up, and build the client.
CallbackBegin(r, error, blob, code) ==
  /\ req[r].pc = "idle"
  /\ invocations < MaxInvocations
  /\ invocations' = invocations + 1
  /\ LET arrived == [IdleReq EXCEPT !.kind = "callback", !.error = error,
                                    !.blob = blob, !.code = code]
         st == decode_oauth_state(blob).obj
         state == st.state
         to_path == st.to_path
         decoded == [arrived EXCEPT !.st = st, !.state = state, !.to_path = to_path]
         request_token == get_by_id(requestTokens, state)
         looked == [decoded EXCEPT !.request_token = request_token]
     IN IF DecodeRaises(blob)
        THEN Done(r, arrived, "HTTPBadRequest")
        ELSE IF IsErrorOrIncomplete(error, state, code)
        THEN IF IsDeclined(error)
             THEN Done(r, [decoded EXCEPT !.finish = <<DeclineFinish(st, state)>>],
                       "returned")
             ELSE Done(r, decoded, "HTTPBadRequest")
        ELSE IF request_token = {}
        THEN Done(r, looked, InvalidTokenError)
        ELSE IF to_path = None
        THEN Done(r, looked, "TypeError")
        ELSE \E host_url \in Hosts :
               LET redirect_uri == CallbackRedirectUri(host_url, to_path)
               IN req' = [req EXCEPT ![r] =
                    [looked EXCEPT
                       !.pc = "authorize",
                       !.host_url = host_url,
                       !.redirect_uri = redirect_uri,
                       !.reddit = {Reddit(appKey, appSecret, redirect_uri)}]]
  /\ UNCHANGED <<appKey, appSecret, requestTokens, auths, proven>>

\* Lines 116-134 with the put moved before the profile fetch: the token is stored
\* under an empty key, and a failing me() leaves that entity behind.
CallbackExchange_PutsBeforeProfile(r) ==
  /\ req[r].kind = "callback"
  /\ req[r].pc = "authorize"
  /\ LET tried == [req[r] EXCEPT !.exchanged = TRUE]
     IN \/ /\ Done(r, tried, "authorize raised")
           /\ auths' = auths
        \/ \E refresh_token \in RefreshTokens :
             /\ Done(r, [tried EXCEPT !.refresh_token = refresh_token], "me raised")
             /\ auths' = Put(auths, RedditAuth("", refresh_token, json_dumps(<<>>)))
        \/ \E refresh_token \in RefreshTokens, user \in Users :
             /\ req' = [req EXCEPT ![r] =
                  [tried EXCEPT !.pc = "put", !.refresh_token = refresh_token,
                                !.user = {user}]]
             /\ auths' = auths
  /\ UNCHANGED <<appKey, appSecret, requestTokens, invocations, proven>>

\* lines 116-117 and 128-129: exchange the code, then fetch the profile. Either call
\* can raise; the exception leaves get.
CallbackExchange(r) ==
  /\ req[r].kind = "callback"
  /\ req[r].pc = "authorize"
  /\ LET tried == [req[r] EXCEPT !.exchanged = TRUE]
     IN \/ Done(r, tried, "authorize raised")
        \/ \E refresh_token \in RefreshTokens :
             Done(r, [tried EXCEPT !.refresh_token = refresh_token], "me raised")
        \/ \E refresh_token \in RefreshTokens, user \in Users :
             req' = [req EXCEPT ![r] =
               [tried EXCEPT !.pc = "put", !.refresh_token = refresh_token,
                             !.user = {user}]]
  /\ UNCHANGED <<appKey, appSecret, requestTokens, auths, invocations, proven>>

\* Lines 131-134 without the put: the entity is built and handed to finish only.
CallbackPut_NoWrite(r) ==
  /\ req[r].kind = "callback"
  /\ req[r].pc = "put"
  /\ IF req[r].refresh_token = NoneStr
     THEN Done(r, req[r], "BadValueError")
     ELSE req' = [req EXCEPT ![r].pc = "finish"]
  /\ UNCHANGED <<appKey, appSecret, requestTokens, auths, invocations, proven>>

\* Lines 131-134 updating an entity already stored property by property: the new
\* refresh token next to the snapshot stored before.
CallbackPut_KeepsOldSnapshot(r) ==
  /\ req[r].kind = "callback"
  /\ req[r].pc = "put"
  /\ \E user \in req[r].user :
       LET old == get_by_id(auths, user_id(user))
           auth == RedditAuth(user_id(user), req[r].refresh_token, user_json(user))
       IN IF req[r].refresh_token = NoneStr
          THEN /\ Done(r, req[r], "BadValueError")
               /\ auths' = auths
          ELSE /\ auths' = IF old = {} THEN Put(auths, auth)
                           ELSE {IF e \in old
                                 THEN [e EXCEPT !.refresh_token = req[r].refresh_token]
                                 ELSE e : e \in auths}
               /\ req' = [req EXCEPT ![r].pc = "finish", ![r].writes = @ + 1]
  /\ UNCHANGED <<appKey, appSecret, requestTokens, invocations, proven>>

\* Lines 131-134 with refresh_token not declared required: None is stored too.
CallbackPut_NotRequired(r) ==
  /\ req[r].kind = "callback"
  /\ req[r].pc = "put"
  /\ \E user \in req[r].user :
       LET auth == RedditAuth(user_id(user), req[r].refresh_token, user_json(user))
       IN /\ auths' = Put(auths, auth)
          /\ req' = [req EXCEPT ![r].pc = "finish", ![r].writes = @ + 1]
  /\ UNCHANGED <<appKey, appSecret, requestTokens, invocations, proven>>

\* lines 131-134: build the RedditAuth and put it. refresh_token is a required
\* property (line 37): put raises when it is None.
CallbackPut(r) ==
  /\ req[r].kind = "callback"
  /\ req[r].pc = "put"
  /\ \E user \in req[r].user :
       LET auth == RedditAuth(user_id(user), req[r].refresh_token, user_json(user))
       IN IF req[r].refresh_token = NoneStr
          THEN /\ Done(r, req[r], "BadValueError")
               /\ auths' = auths
          ELSE /\ auths' = Put(auths, auth)
               /\ req' = [req EXCEPT ![r].pc = "finish", ![r].writes = @ + 1]
  /\ UNCHANGED <<appKey, appSecret, requestTokens, invocations, proven>>

\* Line 135 preceded by request_token.key.delete(): the token is consumed.
CallbackFinish_DeletesToken(r) ==
  /\ req[r].kind = "callback"
  /\ req[r].pc = "finish"
  /\ \E user \in req[r].user :
       LET auth == RedditAuth(user_id(user), req[r].refresh_token, user_json(user))
       IN Done(r, [req[r] EXCEPT !.finish = <<SuccessFinish(auth, req[r].st)>>],
               "returned")
  /\ requestTokens' = requestTokens \ req[r].request_token
  /\ proven' = proven \cup {req[r].state}
  /\ UNCHANGED <<appKey, appSecret, auths, invocations>>

\* line 135: finish(auth, state=st)
CallbackFinish(r) ==
  /\ req[r].kind = "callback"
  /\ req[r].pc = "finish"
  /\ \E user \in req[r].user :
       LET auth == RedditAuth(user_id(user), req[r].refresh_token, user_json(user))
       IN Done(r, [req[r] EXCEPT !.finish = <<SuccessFinish(auth, req[r].st)>>],
               "returned")
  /\ proven' = proven \cup {req[r].state}
  /\ UNCHANGED <<appKey, appSecret, requestTokens, auths, invocations>>

\* The response has been sent: the handler is free for the next request.
Respond(r) ==
  /\ req[r].pc = "done"
  /\ req' = [req EXCEPT ![r] = IdleReq]
  /\ UNCHANGED <<appKey, appSecret, requestTokens, auths, invocations, proven>>

----------------------------------------------------------------------------

Next ==
  \E r \in Handlers :
    \/ \E stateArg \in StateArgs : StartBegin(r, stateArg)
    \/ StartPut(r)
    \/ StartReturn(r)
    \/ \E error \in Errors, blob \in Blobs, code \in Codes :
         CallbackBegin(r, error, blob, code)
    \/ CallbackExchange(r)
    \/ CallbackPut(r)
    \/ CallbackFinish(r)
    \/ Respond(r)

Spec == Init /\ [][Next]_vars

----------------------------------------------------------------------------
(* Properties *)

\* The request in handler r is a Callback.
IsCallback(r) == req[r].kind = "callback"

\* The state parameter of the Callback in handler r decodes.
Decodable(r) == decode_oauth_state(req[r].blob).ok

\* The outcomes of a Callback whose provider call failed.
UpstreamErrors == {"authorize raised", "me raised"}

\* C1: a Callback with no error, a non-empty decoded state token and a non-empty
\* code, whose state token has no OAuthRequestToken, ends in HTTPBadRequest; the
\* exchange is not attempted, finish is not called, no RedditAuth is written.
C1_UnknownTokenIsClientError ==
  \A r \in Handlers :
    ( /\ IsCallback(r)
      /\ req[r].pc = "done"
      /\ req[r].error = <<>>
      /\ Decodable(r)
      /\ ~Falsy(req[r].state)
      /\ req[r].code # ""
      /\ req[r].request_token = {} )
    => /\ req[r].outcome = "HTTPBadRequest"
       /\ ~req[r].exchanged
       /\ req[r].finish = <<>>
       /\ req[r].writes = 0

\* C2: once a Start has returned its authorization URL, an OAuthRequestToken is
\* stored under the state token of the blob in that URL.
C2_PendingBeforeRedirect ==
  \A r \in Handlers :
    \A url \in req[r].url :
      get_by_id(requestTokens, decode_oauth_state(url.state).obj.state)
        = {OAuthRequestToken(req[r].state)}

\* C2 witness: a configured Start has returned its URL.
C2_Witness ==
  \E r \in Handlers :
    /\ req[r].kind = "start"
    /\ req[r].pc = "done"
    /\ req[r].url # {}
    /\ AppConfigured

\* C3: a Callback that presents a state token which already authenticated a
\* successful Callback, and which no Start has issued again since, does not find
\* the OAuthRequestToken.
C3_NoReplay ==
  [][ \A r \in Handlers :
        ( /\ req[r].pc = "idle"
          /\ req'[r].kind = "callback"
          /\ req'[r].state \in proven )
        => req'[r].request_token = {} ]_vars

\* C4 as stated: every Callback with error=access_denied ends in one finish call
\* with no credential, whatever its state and code.
C4_DeclineAlwaysFinishes ==
  \A r \in Handlers :
    (IsCallback(r) /\ req[r].error = ACCESS_DENIED)
    => /\ req[r].pc = "done"
       /\ req[r].outcome = "returned"
       /\ Len(req[r].finish) = 1
       /\ req[r].finish[1].auth = {}
       /\ req[r].writes = 0

\* C4 amended: every Callback with error=access_denied whose state parameter is
\* absent or decodable ends in one finish call with no credential, whether or not
\* a code is present; it is no client error and writes no RedditAuth.
C4_DeclineFinishesWhenDecodable ==
  \A r \in Handlers :
    (IsCallback(r) /\ req[r].error = ACCESS_DENIED /\ Decodable(r))
    => /\ req[r].pc = "done"
       /\ req[r].outcome = "returned"
       /\ Len(req[r].finish) = 1
       /\ req[r].finish[1].auth = {}
       /\ ~req[r].exchanged
       /\ req[r].writes = 0

\* C4 witness: declines with and without a code, one of them without a state.
C4_Witness ==
  \E r1, r2 \in Handlers :
    /\ IsCallback(r1) /\ IsCallback(r2)
    /\ req[r1].error = ACCESS_DENIED /\ req[r2].error = ACCESS_DENIED
    /\ req[r1].code = "" /\ req[r1].blob = EmptyParam
    /\ req[r2].code # "" /\ req[r2].blob \notin {EmptyParam, Malformed}
    /\ Len(req[r1].finish) = 1 /\ Len(req[r2].finish) = 1

\* C5: a Callback with no error whose decoded state token or whose code is empty
\* ends in HTTPBadRequest: finish is not called, no RedditAuth is written.
C5_IncompleteIsClientError ==
  \A r \in Handlers :
    ( /\ IsCallback(r)
      /\ req[r].error = <<>>
      /\ Decodable(r)
      /\ (Falsy(req[r].state) \/ req[r].code = "") )
    => /\ req[r].pc = "done"
       /\ req[r].outcome = "HTTPBadRequest"
       /\ req[r].finish = <<>>
       /\ req[r].writes = 0

\* C6: among the Callbacks that carry an error, finish is called with no
\* credential only when the error is exactly access_denied; every other error
\* ends in HTTPBadRequest with no finish call.
C6_DeclineOnlyOnAccessDenied ==
  \A r \in Handlers :
    (IsCallback(r) /\ Decodable(r) /\ req[r].error # <<>>)
    => /\ (req[r].finish # <<>> /\ req[r].finish[1].auth = {})
            => req[r].error = ACCESS_DENIED
       /\ req[r].error # ACCESS_DENIED
            => /\ req[r].outcome = "HTTPBadRequest"
               /\ req[r].finish = <<>>

\* C7: every finish call of a Callback gets the decoded dict as its state.
C7_FinishStateIsDecodedBlob ==
  \A r \in Handlers :
    (IsCallback(r) /\ req[r].finish # <<>>)
    => req[r].finish[1].state = PyDict(req[r].st)

\* C8: a Callback whose authorize or me call fails ends with that failure, calls
\* no finish, and has written no RedditAuth: the step that fails leaves the
\* store as it was, and the Callback wrote nothing before it.
C8_UpstreamFailureWritesNothing ==
  [][ \A r \in Handlers :
        (req[r].pc # "done" /\ req'[r].outcome \in UpstreamErrors)
        => /\ req'[r].pc = "done"
           /\ req'[r].finish = <<>>
           /\ req[r].writes = 0
           /\ req'[r].writes = 0
           /\ auths' = auths ]_vars

\* C8 witness: a profile fetch has failed while a RedditAuth was already stored.
C8_Witness ==
  \E r \in Handlers :
    /\ IsCallback(r)
    /\ req[r].outcome = "me raised"
    /\ req[r].refresh_token # NoneStr
    /\ auths # {}

\* C9: the store holds one RedditAuth per user id; the put of a successful
\* Callback leaves its own refresh token and profile snapshot under its user id
\* and every entity of another id as it was.
C9_OneCredentialPerUser ==
  [][ /\ \A a, b \in auths' : a.id = b.id => a = b
      /\ \A r \in Handlers :
           (IsCallback(r) /\ req[r].pc = "put" /\ req'[r].pc = "finish")
           => \A user \in req[r].user :
                /\ get_by_id(auths', user.name)
                     = {[ id |-> user.name,
                          refresh_token |-> req[r].refresh_token,
                          user_json |-> user_json(user) ]}
                /\ {a \in auths' : a.id # user.name}
                     = {a \in auths : a.id # user.name} ]_vars

\* C9 witness: two Callbacks succeeded for one user id with different refresh
\* tokens, and the store holds the single entity of the later put.
C9_Witness ==
  \E r1, r2 \in Handlers :
    /\ r1 # r2
    /\ req[r1].writes = 1 /\ req[r2].writes = 1
    /\ req[r1].pc = "done" /\ req[r2].pc = "finish"
    /\ \E u1 \in req[r1].user, u2 \in req[r2].user :
         /\ u1.name = u2.name
         /\ u1 # u2
         /\ req[r1].refresh_token # req[r2].refresh_token
         /\ auths = {RedditAuth(u2.name, req[r2].refresh_token, user_json(u2))}

\* C10: a Callback whose state parameter does not decode ends in HTTPBadRequest
\* whatever its error and code: nothing is looked up or exchanged, finish is not
\* called, no RedditAuth is written.
C10_MalformedStateIsClientError ==
  \A r \in Handlers :
    (IsCallback(r) /\ ~Decodable(r))
    => /\ req[r].pc = "done"
       /\ req[r].outcome = "HTTPBadRequest"
       /\ req[r].st = EmptyDict
       /\ req[r].request_token = {}
       /\ ~req[r].exchanged
       /\ req[r].finish = <<>>
       /\ req[r].writes = 0

\* C10 witness: malformed state parameters with a decline and a code, and with
\* neither.
C10_Witness ==
  \E r1, r2 \in Handlers :
    /\ IsCallback(r1) /\ IsCallback(r2)
    /\ req[r1].blob = Malformed /\ req[r2].blob = Malformed
    /\ req[r1].error = ACCESS_DENIED /\ req[r1].code # ""
    /\ req[r2].error = <<>> /\ req[r2].code = ""
    /\ req[r1].outcome = "HTTPBadRequest" /\ req[r2].outcome = "HTTPBadRequest"

C12_UnconfiguredStartFails ==
  (FalsyStr(appKey) \/ FalsyStr(appSecret))
  => /\ requestTokens = {}
     /\ \A r \in Handlers :
          req[r].kind = "start"
          => /\ req[r].pc = "done"
             /\ req[r].outcome = "AssertionError"
             /\ req[r].reddit = {}
             /\ req[r].redirect_uri = None
             /\ req[r].url = {}

\* C12 witness: Starts have failed with the key set and the secret empty.
C12_Witness ==
  /\ appKey = "key"
  /\ appSecret = ""
  /\ \A r \in Handlers :
       req[r].kind = "start" /\ req[r].outcome = "AssertionError"

\* C13: a Callback that arrives with the blob of a Start called without a state,
\* with a code and no error, finds the OAuthRequestToken and goes on to the
\* exchange; when the provider returns refresh token rt and user u, its put stores
\* a RedditAuth keyed by u's name with rt and a snapshot holding u's name, and
\* its next step is finish(that RedditAuth, the decoded blob).
C13_HonestFlowSucceeds ==
  [][ \A r \in Handlers :
        /\ \A h \in Handlers :
             \A url \in req[h].url :
               ( /\ req[h].kind = "start"
                 /\ Falsy(req[h].state_arg)
                 /\ req[r].pc = "idle"
                 /\ req'[r].kind = "callback"
                 /\ req'[r].blob = url.state
                 /\ req'[r].error = <<>>
                 /\ req'[r].code # "" )
               => /\ req'[r].pc = "authorize"
                  /\ req'[r].request_token = {OAuthRequestToken(req[h].state)}
                  /\ req'[r].st = [state |-> req[h].state, to_path |-> TO_PATH]
        /\ ( /\ IsCallback(r)
             /\ req[r].pc = "put"
             /\ req'[r] # req[r]
             /\ req[r].refresh_token # NoneStr )
           => /\ req'[r].pc = "finish"
              /\ \A user \in req[r].user :
                   \E a \in auths' :
                     /\ a.id = user.name
                     /\ a.refresh_token = req[r].refresh_token
                     /\ a.user_json.json["name"] = user.name
        /\ (IsCallback(r) /\ req[r].pc = "finish" /\ req'[r] # req[r])
           => /\ req'[r].pc = "done"
              /\ req'[r].outcome = "returned"
              /\ Len(req'[r].finish) = 1
              /\ req'[r].finish[1].state = PyDict(req[r].st)
              /\ \A user \in req[r].user :
                   \E a \in req'[r].finish[1].auth :
                     /\ a.id = user.name
                     /\ a.refresh_token = req[r].refresh_token
                     /\ a.user_json.json["name"] = user.name ]_vars

\* C13 witness: a Start without a state has returned its URL, and a Callback with
\* the blob of that URL has ended in finish with the RedditAuth now stored.
C13_Witness ==
  \E h, r \in Handlers :
    /\ req[h].kind = "start"
    /\ req[h].state_arg = None
    /\ \E url \in req[h].url : req[r].blob = url.state
    /\ IsCallback(r)
    /\ req[r].pc = "done"
    /\ req[r].outcome = "returned"
    /\ req[r].code = "abc123"
    /\ \E a \in req[r].finish[1].auth :
         /\ a.id = "alice"
         /\ a.refresh_token = "rt1"
         /\ a \in auths

\* The characters of s are decimal digits.
IsDecimal(s) == \A i \in 1..Len(s) : \E d \in 1..10 : Digits[d] = s[i]

\* The number a string of decimal digits denotes.
RECURSIVE DecimalValue(_)
DecimalValue(s) ==
  IF s = <<>> THEN 0
  ELSE 10 * DecimalValue(SubSeq(s, 1, Len(s) - 1))
         + (CHOOSE d \in 0..9 : Digits[d + 1] = s[Len(s)])

\* s is the decimal string of an integer between 100000 and 999999.
IsSixDigitToken(s) ==
  /\ IsDecimal(s)
  /\ Len(s) = 6
  /\ s[1] # "0"
  /\ DecimalValue(s) >= 100000
  /\ DecimalValue(s) <= 999999

\* C14: a Start called with a non-empty state uses exactly that state as its
\* token; a Start called with None or '' uses the decimal string of an integer
\* in 100000..999999. The OAuthRequestToken is stored under that token, and the
\* blob of the returned URL carries the same token.
C14_TokenGeneratedOnlyWithoutState ==
  \A r \in Handlers :
    req[r].kind = "start"
    => /\ ~Falsy(req[r].state_arg) => req[r].state = req[r].state_arg
       /\ Falsy(req[r].state_arg) => IsSixDigitToken(req[r].state)
       /\ req[r].pc = "return"
            => get_by_id(requestTokens, req[r].state)
                 = {[id |-> req[r].state, token_secret |-> req[r].state,
                     state |-> req[r].state]}
       /\ \A url \in req[r].url :
            /\ decode_oauth_state(url.state).obj.state = req[r].state
            /\ get_by_id(requestTokens, req[r].state) # {}

\* C14 witness: one Start with a caller's state and one without have both
\* returned their URLs.
C14_Witness ==
  \E r1, r2 \in Handlers :
    /\ req[r1].kind = "start" /\ req[r2].kind = "start"
    /\ req[r1].state_arg = <<"s">> /\ req[r1].url # {}
    /\ req[r2].state_arg = None /\ req[r2].url # {}
    /\ req[r2].state = <<"9", "9", "9", "9", "9", "9">>

\* C15: the RedditAuth store changes, and a request counts a write, only in the
\* put step of a Callback that has no error, a non-empty state token and code,
\* found its OAuthRequestToken and got a refresh token and a user from the
\* provider; that step is the Callback's first and only write. Every step of a
\* Start and every other step of a Callback leaves the store as it is.
C15_WritesOnlyOnSuccessPath ==
  [][ /\ \A r \in Handlers : req'[r].writes <= 1
      /\ (auths' # auths \/ \E r \in Handlers : req'[r].writes > req[r].writes)
         => \E r \in Handlers :
              /\ IsCallback(r)
              /\ req[r].pc = "put"
              /\ req'[r].pc = "finish"
              /\ req[r].writes = 0
              /\ req'[r].writes = 1
              /\ req[r].error = <<>>
              /\ ~Falsy(req[r].state)
              /\ req[r].code # ""
              /\ req[r].request_token # {}
              /\ req[r].exchanged
              /\ ~FalsyStr(req[r].refresh_token)
              /\ req[r].user # {}
              /\ \A h \in Handlers \ {r} : req'[h] = req[h] ]_vars

\* C15 witness: a Callback has written once and ended, a declined Callback has
\* ended without a write, and the store holds the one entity.
C15_Witness ==
  \E r1, r2 \in Handlers :
    /\ IsCallback(r1) /\ req[r1].pc = "done" /\ req[r1].writes = 1
    /\ IsCallback(r2) /\ req[r2].pc = "done" /\ req[r2].writes = 0
    /\ req[r2].error = ACCESS_DENIED
    /\ Cardinality(auths) = 1

\* C16: a Callback that carries the blob of a Start's URL and arrives on the
\* host that Start was called on builds its praw client, the one it exchanges the
\* code with, from the client id, client secret and redirect URI of that URL; the
\* redirect URI is the host URL followed by the to_path of the blob.
C16_SameClientTriple ==
  \A r, h \in Handlers :
    \A url \in req[h].url :
      ( /\ req[h].kind = "start"
        /\ IsCallback(r)
        /\ req[r].blob = url.state
        /\ req[r].reddit # {}
        /\ req[r].host_url = req[h].host_url )
      => /\ req[r].reddit
              = {[ client_id |-> url.client_id,
                   client_secret |-> url.client_secret,
                   redirect_uri |-> url.redirect_uri ]}
         /\ url.redirect_uri
              = req[r].host_url \o decode_oauth_state(req[r].blob).obj.to_path

\* C16 witness: a Callback has exchanged its code with the client triple of the
\* Start whose blob it carries, both on the second host.
C16_Witness ==
  \E r, h \in Handlers :
    /\ req[h].kind = "start"
    /\ IsCallback(r)
    /\ req[r].exchanged
    /\ req[r].host_url = OTHER_HOST_URL
    /\ req[h].host_url = OTHER_HOST_URL
    /\ \E url \in req[h].url :
         /\ req[r].blob = url.state
         /\ req[r].redirect_uri = url.redirect_uri

\* C17: the store holds at most one OAuthRequestToken per id, each with its
\* token_secret and state equal to its id; when two Starts with the same state
\* token have both passed their put, in either order, exactly that one entity is
\* stored under the token and neither Start ends in an error.
C17_StartCollisionOverwrites ==
  /\ \A e1, e2 \in requestTokens : e1.id = e2.id => e1 = e2
  /\ \A e \in requestTokens : e.token_secret = e.id /\ e.state = e.id
  /\ \A r1, r2 \in Handlers :
       ( /\ r1 # r2
         /\ req[r1].kind = "start" /\ req[r2].kind = "start"
         /\ req[r1].state = req[r2].state
         /\ req[r1].pc \in {"return", "done"}
         /\ req[r2].pc \in {"return", "done"}
         /\ AppConfigured )
       => /\ get_by_id(requestTokens, req[r1].state)
               = {[id |-> req[r1].state, token_secret |-> req[r1].state,
                   state |-> req[r1].state]}
          /\ \A r \in {r1, r2} :
               req[r].pc = "done" => req[r].outcome = "returned" /\ req[r].url # {}

\* C17 witness: two Starts with the same generated token have both put before
\* either returned, and one entity is stored.
C17_Witness ==
  \E r1, r2 \in Handlers :
    /\ r1 # r2
    /\ req[r1].kind = "start" /\ req[r2].kind = "start"
    /\ req[r1].state = req[r2].state
    /\ req[r1].state_arg = None /\ req[r2].state_arg = None
    /\ req[r1].pc = "return" /\ req[r2].pc = "return"
    /\ Cardinality(requestTokens) = 1

\* The RedditAuth the Callback in handler r builds at lines 131-133.
CredentialOf(r) ==
  {[ id |-> user.name, refresh_token |-> req[r].refresh_token,
     user_json |-> user_json(user) ] : user \in req[r].user}

\* C18: no step of a Callback, on any of its paths, changes the
\* OAuthRequestToken store.
C18_CallbackLeavesPendingStore ==
  [][ \A r \in Handlers :
        ( /\ req'[r] # req[r]
          /\ (req[r].kind = "callback" \/ req'[r].kind = "callback") )
        => requestTokens' = requestTokens ]_vars

\* C18 witness: Callbacks have ended on the success path and in a client error
\* while the OAuthRequestToken the first one read is still stored.
C18_Witness ==
  \E r1, r2 \in Handlers :
    /\ IsCallback(r1) /\ req[r1].pc = "done" /\ req[r1].writes = 1
    /\ req[r1].request_token # {}
    /\ req[r1].request_token \subseteq requestTokens
    /\ IsCallback(r2) /\ req[r2].pc = "done" /\ req[r2].outcome = "HTTPBadRequest"

C20_NoMixedCredential ==
  \A r1, r2 \in Handlers :
    ( /\ r1 # r2
      /\ IsCallback(r1) /\ IsCallback(r2)
      /\ req[r1].writes = 1 /\ req[r2].writes = 1
      /\ \E c1 \in CredentialOf(r1), c2 \in CredentialOf(r2) : c1.id = c2.id )
    => \A c1 \in CredentialOf(r1) :
         get_by_id(auths, c1.id) \in {CredentialOf(r1), CredentialOf(r2)}

\* C20 witness: two Callbacks for one user id, with different refresh tokens and
\* different snapshots, have both put and neither has called finish yet.
C20_Witness ==
  \E r1, r2 \in Handlers :
    /\ r1 # r2
    /\ IsCallback(r1) /\ IsCallback(r2)
    /\ req[r1].pc = "finish" /\ req[r2].pc = "finish"
    /\ \E c1 \in CredentialOf(r1), c2 \in CredentialOf(r2) :
         /\ c1.id = c2.id
         /\ c1.refresh_token # c2.refresh_token
         /\ c1.user_json # c2.user_json
         /\ auths = {c2}

====
